---- MODULE Spec2Model ----
(***************************************************************************)
(* A model of the POET decision engine (src/src/poet.c): the Kalman        *)
(* workload estimator, the xup controller, the time-division planner, the  *)
(* pair search and the control orchestrator poet_apply_control, together   *)
(* with poet_init and poet_set_constraint_type.                            *)
(*                                                                         *)
(* real_t is modelled as a fixed-point number: the integer v stands for    *)
(* the real v / Scale.  idle_ns is kept in units of 10^9 / Scale           *)
(* nanoseconds, so that mult(idle_sec, CONST(1000000000.0)) followed by    *)
(* real_to_int is exact on the raw value of idle_sec.                      *)
(***************************************************************************)
EXTENDS Integers, Sequences, FiniteSets, TLC

VARIABLES
  args,     \* the arguments poet_init was called with
  phase,    \* "start" before poet_init has run, "done" after
  alive,    \* poet_init returned a non-NULL poet_state
  errno,    \* errno as left by poet_init
  state,    \* the poet_internal_state
  envAt,    \* the POET_* environment variables the last call read and found set
  calls,    \* number of poet_apply_control calls made by the host
  plans,    \* number of those calls that ran the boundary block
  switches, \* number of poet_set_constraint_type calls that changed the constraint
  last,     \* what the last host call was and what it did
  plan,     \* the schedule as translate_n2_with_time left it at the last boundary
  host,     \* the apply callback's side: what the host was asked to apply
  logfile   \* rows written to the log file, in order

vars == <<args, phase, alive, errno, state, envAt, calls, plans, switches, last, plan, host, logfile>>

---------------------------------------------------------------------------
(* Bounds of the model *)

MaxCalls == 4
MaxPlans == 2
MaxSwitches == 1

---------------------------------------------------------------------------
(* poet_math.h: the numeric kernel *)

Scale == 64

Abs(a) == IF a < 0 THEN -a ELSE a

\* F applied to the value of v, v being evaluated once (a C local variable)
Let(v, F(_)) == CHOOSE r \in {F(x) : x \in {v}} : TRUE

\* C integer division: truncation toward zero
CDiv(a, b) == IF (a < 0) = (b < 0) THEN Abs(a) \div Abs(b) ELSE -(Abs(a) \div Abs(b))

\* CONST(n/d): the real constant n/d, rounded to the nearest representable value
CONST(n, d) == (2 * n * Scale + d) \div (2 * d)

mult(a, b) == (a * b) \div Scale
mult3(a, b, c) == mult(mult(a, b), c)
mult4(a, b, c, d) == mult(mult3(a, b, c), d)
div(a, b) == CDiv(a * Scale, b)
int_to_real(i) == i * Scale
real_to_int(r) == CDiv(r, Scale)

---------------------------------------------------------------------------
(* poet_constants.h *)

R_ZERO == 0
R_ONE == Scale
X_HAT_MINUS_START == CONST(0, 1)
X_HAT_START == CONST(1, 5)
P_START == CONST(1, 1)
P_MINUS_START == CONST(0, 1)
H_START == CONST(0, 1)
K_START == CONST(0, 1)
Q == CONST(1, 100000)
R == CONST(1, 100)
P1 == CONST(0, 1)
P2 == CONST(0, 1)
Z1 == CONST(0, 1)
MU == CONST(1, 1)
E_START == CONST(0, 1)
EO_START == CONST(0, 1)
CURRENT_ACTION_START == 0
U_MIN_SPEEDUP == CONST(1, 8)
U_MIN_COST == CONST(1, 8)
BIG_REAL_T == 1000000 * Scale

PERFORMANCE == "PERFORMANCE"
POWER == "POWER"

EINVAL == "EINVAL"

POET_DISABLE_CONTROL == "POET_DISABLE_CONTROL"
POET_DISABLE_APPLY == "POET_DISABLE_APPLY"
POET_DISABLE_IDLE == "POET_DISABLE_IDLE"

---------------------------------------------------------------------------
(* poet.h: poet_control_state_t, and the tables the host passes *)

Entry(speedup, cost, partner) ==
  [speedup |-> speedup, cost |-> cost, idle_partner_id |-> partner]

\* one state at the baseline
TableOne == << Entry(CONST(1, 1), CONST(1, 1), 0) >>
\* one state above the baseline
TableFast == << Entry(CONST(2, 1), CONST(2, 1), 0) >>
\* one state at the baseline speed that costs twice the baseline
TableCostly == << Entry(CONST(1, 1), CONST(2, 1), 0) >>
\* a sleep state (speedup 0) with partner 1
TableSleep == << Entry(CONST(0, 1), CONST(1, 10), 1), Entry(CONST(1, 1), CONST(1, 1), 0),
                 Entry(CONST(2, 1), CONST(2, 1), 0) >>
\* a throttled state (0 < speedup < 1) with partner 1
TableThrottle == << Entry(CONST(1, 2), CONST(1, 1), 1), Entry(CONST(1, 1), CONST(1, 1), 0),
                    Entry(CONST(2, 1), CONST(3, 1), 0) >>
\* two states, no idling; the slower one costs less than the baseline
TableTwo == << Entry(CONST(1, 1), CONST(1, 2), 1), Entry(CONST(2, 1), CONST(1, 1), 0) >>

\* one state at the baseline, not an idle state, whose idle_partner_id names no entry
TableLoose == << Entry(CONST(1, 1), CONST(1, 1), 1) >>

Tables == {TableOne, TableFast, TableTwo, TableSleep, TableThrottle}

\* the tables poet_init is tried on
InitTables == Tables \cup {TableCostly}

---------------------------------------------------------------------------
(* poet_init *)

FilterStart ==
  [x_hat_minus |-> X_HAT_MINUS_START, x_hat |-> X_HAT_START, p_minus |-> P_MINUS_START,
   h |-> H_START, k |-> K_START, p |-> P_START]

\* the value of a field of a poet_state that was never constructed
NoXup == [u |-> 0, uo |-> 0, uoo |-> 0, e |-> 0, eo |-> 0, umin |-> 0, umax |-> 0]

NoState ==
  [log_file |-> FALSE, buffer_depth |-> 0, lb |-> << >>,
   constraint |-> PERFORMANCE, constraint_goal |-> 0,
   pfs |-> FilterStart, cfs |-> FilterStart, scs |-> NoXup, pcs |-> NoXup,
   current_action |-> 0, lower_id |-> -1, upper_id |-> -1, last_id |-> 0,
   low_state_iters |-> 0, period |-> 0, idle_ns |-> 0,
   cost_estimate |-> 0, cost_xup_estimate |-> 0,
   num_system_states |-> 0, apply |-> FALSE, control_states |-> << >>,
   beyond |-> Entry(0, 0, 0), is_first_apply |-> 0]

\* control_states[id], ids counted from 0 as in the source
StateAt(table, id) == table[id + 1]

\* control_states[id] for an id the code does not check: an id past the table reads
\* whatever lies beyond it
TableRead(s, id) ==
  IF id \in 0..(s.num_system_states - 1) THEN StateAt(s.control_states, id) ELSE s.beyond

\* InvalidArguments without the test of period
InvalidArgumentsAnyPeriod(a) ==
  \/ a.goal <= R_ZERO
  \/ a.num_system_states = 0
  \/ ~a.control_states_given
  \/ (a.buffer_depth = 0 /\ a.log_filename)

\* the rejection of line 122
InvalidArguments(a) ==
  \/ a.goal <= R_ZERO
  \/ a.num_system_states = 0
  \/ ~a.control_states_given
  \/ a.period = 0
  \/ (a.buffer_depth = 0 /\ a.log_filename)

\* lines 204-208: the current probe, NULL (-2), failing (-1) or reporting an id
InitialId(a) ==
  IF a.current < 0 THEN a.num_system_states - 1 ELSE a.current

\* XupRangeStep without the floors U_MIN_SPEEDUP and U_MIN_COST
XupRangeStepNoFloor(r, e) ==
  [smin |-> IF e.speedup < r.smin THEN e.speedup ELSE r.smin,
   smax |-> IF e.speedup >= r.smax THEN e.speedup ELSE r.smax,
   cmin |-> IF e.cost <= r.cmin THEN e.cost ELSE r.cmin,
   cmax |-> IF e.cost >= r.cmax THEN e.cost ELSE r.cmax]

\* lines 237-248: one pass of the loop over the table
XupRangeStep(r, e) ==
  LET smin == IF e.speedup < r.smin
              THEN (IF e.speedup < U_MIN_SPEEDUP THEN U_MIN_SPEEDUP ELSE e.speedup)
              ELSE r.smin
      smax == IF e.speedup >= r.smax THEN e.speedup ELSE r.smax
      cmin == IF e.cost <= r.cmin
              THEN (IF e.cost < U_MIN_COST THEN U_MIN_COST ELSE e.cost)
              ELSE r.cmin
      cmax == IF e.cost >= r.cmax THEN e.cost ELSE r.cmax
  IN [smin |-> smin, smax |-> smax, cmin |-> cmin, cmax |-> cmax]

RECURSIVE XupRange(_, _, _)
\* lines 230-249: the loop for (i = 0; i < num_system_states; i++)
XupRange(table, i, r) ==
  IF i >= Len(table) THEN r
  ELSE XupRange(table, i + 1, XupRangeStep(r, StateAt(table, i)))

\* lines 146-146: the log buffer as malloc leaves it: no slot holds a record, and what
\* a slot reads as is indeterminate (garbage)
EmptyBuffer(depth, garbage) == [i \in 1..depth |-> [tag |-> garbage, stored |-> FALSE]]

\* lines 128-251: the poet_state of a successful poet_init
Construct(a) ==
  LET table == a.control_states
      id == InitialId(a)
      r == XupRange(table, 0, [smin |-> R_ONE, smax |-> R_ONE, cmin |-> R_ONE, cmax |-> R_ONE])
      su == StateAt(table, id).speedup
      cu == StateAt(table, id).cost
  IN [log_file |-> a.log_filename, buffer_depth |-> a.buffer_depth,
      lb |-> EmptyBuffer(a.buffer_depth, a.garbage),
      constraint |-> a.constraint, constraint_goal |-> a.goal,
      pfs |-> FilterStart, cfs |-> FilterStart,
      scs |-> [u |-> su, uo |-> su, uoo |-> su, e |-> E_START, eo |-> EO_START,
               umin |-> r.smin, umax |-> r.smax],
      pcs |-> [u |-> cu, uo |-> cu, uoo |-> cu, e |-> E_START, eo |-> EO_START,
               umin |-> r.cmin, umax |-> r.cmax],
      current_action |-> CURRENT_ACTION_START, lower_id |-> -1, upper_id |-> -1,
      last_id |-> id, low_state_iters |-> 0, period |-> a.period, idle_ns |-> 0,
      cost_estimate |-> R_ZERO, cost_xup_estimate |-> R_ZERO,
      num_system_states |-> a.num_system_states, apply |-> a.apply,
      control_states |-> table, beyond |-> a.beyond, is_first_apply |-> 1]

\* lines 129-165: malloc of the state, malloc of the log buffer or fopen fails
ResourceFailure(a) ==
  \/ a.fault = "ENOMEM_state"
  \/ (a.fault = "ENOMEM_lb" /\ a.buffer_depth > 0)
  \/ (a.fault = "fopen" /\ a.log_filename)

\* lines 110-252: what poet_init returns and the errno it sets
poet_init(a) ==
  IF InvalidArguments(a) THEN [ok |-> FALSE, errno |-> EINVAL, state |-> NoState]
  ELSE IF ResourceFailure(a) THEN [ok |-> FALSE, errno |-> a.fault, state |-> NoState]
  ELSE [ok |-> TRUE, errno |-> "", state |-> Construct(a)]

---------------------------------------------------------------------------
(* The Kalman workload estimator and the xup controller *)

\* lines 364-372: the filter_state after one update
FilterUpdate(current_workload, last_xup, f) ==
  LET x_hat_minus == f.x_hat
      p_minus == f.p + Q
      h == last_xup
      k == div(mult(p_minus, h), mult3(h, p_minus, h) + R)
      x_hat == x_hat_minus + mult(k, current_workload - mult(h, x_hat_minus))
      p == mult(R_ONE - mult(k, h), p_minus)
  IN [x_hat_minus |-> x_hat_minus, x_hat |-> x_hat, p_minus |-> p_minus,
      h |-> h, k |-> k, p |-> p]

\* lines 359-377: the updated filter and the workload _w returned
estimate_base_workload(current_workload, last_xup, f) ==
  Let(FilterUpdate(current_workload, last_xup, f), LAMBDA g :
    [filter |-> g, w |-> div(R_ONE, g.x_hat)])

\* lines 392-401: the unclamped controller output
XupRaw(e, w, xs) ==
  LET A == -(-mult(P1, Z1) - mult(P2, Z1) + mult3(MU, P1, P2) - mult(MU, P2) + P2
             - mult(MU, P1) + P1 + MU)
      B == -(-mult4(MU, P1, P2, Z1) + mult3(P1, P2, Z1) + mult3(MU, P2, Z1)
             + mult3(MU, P1, Z1) - mult(MU, Z1) - mult(P1, P2))
      C == mult(mult(MU - mult(MU, P1), P2) + mult(MU, P1) - MU, w)
      D == mult3(mult(mult(MU, P1) - MU, P2) - mult(MU, P1) + MU, w, Z1)
      F == div(R_ONE, Z1 - R_ONE)
  IN mult(F, mult(A, xs.uo) + mult(B, xs.uoo) + mult(C, e) + mult(D, xs.eo))

\* ClampXup without the clamp at umax
ClampXupLowOnly(u, umin, umax) == IF u < umin THEN umin ELSE u

\* lines 403-411: the two clamps, in the order of the source
ClampXup(u, umin, umax) ==
  LET lo == IF u < umin THEN umin ELSE u
  IN IF lo > umax THEN umax ELSE lo

\* lines 383-417
calculate_xup(current_rate, desired_rate, w, xs) ==
  LET e == desired_rate - current_rate
  IN Let(ClampXup(XupRaw(e, w, xs), xs.umin, xs.umax),
         LAMBDA u : [xs EXCEPT !.e = e, !.u = u, !.uoo = xs.uo, !.uo = u, !.eo = e])

\* lines 433-438: the cross-seeding of one calc_xup_state
SeedXup(xs, cost_xup_estimate) ==
  [xs EXCEPT !.uoo = xs.uo, !.u = cost_xup_estimate, !.uo = cost_xup_estimate,
             !.e = E_START, !.eo = EO_START]

\* calculate_cost_xup seeding the controller of the constraint in force
SeedActiveXup(s) ==
  IF s.constraint = POWER
  THEN [s EXCEPT !.pcs = SeedXup(s.pcs, s.cost_xup_estimate)]
  ELSE [s EXCEPT !.scs = SeedXup(s.scs, s.cost_xup_estimate)]

\* lines 422-439
calculate_cost_xup(s) ==
  IF s.constraint = POWER
  THEN [s EXCEPT !.scs = SeedXup(s.scs, s.cost_xup_estimate)]
  ELSE [s EXCEPT !.pcs = SeedXup(s.pcs, s.cost_xup_estimate)]

---------------------------------------------------------------------------
(* The time-division planner *)

\* the assignment of a negative real_t to the unsigned long long idle_ns wraps;
\* the wrapped value is beyond every idle time the planner computes
UnsignedWrap == 2^30
ToUnsigned(v) == IF v < 0 THEN UnsignedWrap + v ELSE v

\* real_to_int(mult(idle_sec, CONST(1000000000.0))), in units of 10^9 / Scale ns
IdleNs(idle_sec) == idle_sec

\* lines 453-473: the xups and costs the planner reads, by constraint
PlannerInputs(s) ==
  LET lower == StateAt(s.control_states, s.lower_id)
      partner == TableRead(s, lower.idle_partner_id)
      upper == StateAt(s.control_states, s.upper_id)
  IN IF s.constraint = POWER
     THEN [lower_xup |-> lower.cost, partner_xup |-> partner.cost, upper_xup |-> upper.cost,
           lower_xup_cost |-> lower.speedup, partner_xup_cost |-> partner.speedup,
           upper_xup_cost |-> upper.speedup, target_xup |-> s.pcs.u]
     ELSE [lower_xup |-> lower.speedup, partner_xup |-> partner.speedup,
           upper_xup |-> upper.speedup,
           lower_xup_cost |-> lower.cost, partner_xup_cost |-> partner.cost,
           upper_xup_cost |-> upper.cost, target_xup |-> s.scs.u]

\* IsIdleLower taking a state at the baseline for an idle state as well
IsIdleLowerInclusive(lower_xup) == lower_xup <= R_ONE

\* line 476: the test that takes the planner into its idle branch
IsIdleLower(lower_xup) == lower_xup < R_ONE

\* lines 497-499, 502-505: the share x of the hybrid iteration and its cost
HybridShare(in, hybrid_xup) ==
  IF in.lower_xup <= R_ZERO
  THEN R_ONE - div(hybrid_xup, in.partner_xup)
  ELSE div(mult(in.lower_xup, hybrid_xup - in.partner_xup),
           mult(hybrid_xup, in.lower_xup - in.partner_xup))

HybridCost(in, x) ==
  IF in.lower_xup <= R_ZERO
  THEN mult(x, in.lower_xup_cost) + mult(R_ONE - x, in.partner_xup_cost)
  ELSE mult(div(x, in.lower_xup), in.lower_xup_cost)
       + mult(div(R_ONE - x, in.partner_xup), in.partner_xup_cost)

\* lines 492-515: the planner idles in the first iteration
IdleFirstIteration(in, r_period, workload, hybrid_xup) ==
  Let(HybridShare(in, hybrid_xup), LAMBDA x :
  Let(HybridCost(in, x), LAMBDA hybrid_xup_cost :
    LET idle_sec == mult(workload, div(R_ONE, hybrid_xup) - div(x, in.partner_xup))
    IN [low_state_iters |-> 1, idle_ns |-> IdleNs(idle_sec),
        cost |-> mult(div(R_ONE, hybrid_xup), hybrid_xup_cost)
                 + mult(div(r_period - R_ONE, in.upper_xup), in.upper_xup_cost),
        cost_xup |-> div(hybrid_xup_cost + mult(r_period - R_ONE, in.upper_xup_cost),
                         r_period)]))

\* lines 482-516: the idle branch
IdleDivision(in, r_period, workload) ==
  Let(div(mult(in.target_xup, in.upper_xup),
          mult(r_period, in.upper_xup - in.target_xup) + in.target_xup),
      LAMBDA hybrid_xup :
        IF hybrid_xup >= in.partner_xup
        THEN [low_state_iters |-> 0, idle_ns |-> 0,
              cost |-> mult(div(r_period, in.upper_xup), in.upper_xup_cost),
              cost_xup |-> in.upper_xup_cost]
        ELSE IdleFirstIteration(in, r_period, workload, hybrid_xup))

\* BusyDivision rounding the iteration count up instead of truncating it: the count
\* then exceeds the period when the lower state alone meets the target
BusyDivisionRoundUp(in, r_period) ==
  LET r_low == IF in.upper_xup <= in.lower_xup /\ in.upper_xup >= in.lower_xup
               THEN R_ZERO
               ELSE mult(r_period,
                         div(mult(in.upper_xup, in.lower_xup) - mult(in.target_xup, in.lower_xup),
                             mult(in.upper_xup, in.target_xup) - mult(in.target_xup, in.lower_xup)))
  IN Let(real_to_int(r_low) + 1, LAMBDA low_state_iters :
     LET r_low_state_iters == int_to_real(low_state_iters) IN
     [low_state_iters |-> low_state_iters, idle_ns |-> 0,
      cost |-> mult(div(r_low_state_iters, in.lower_xup), in.lower_xup_cost)
               + mult(div(r_period - r_low_state_iters, in.upper_xup), in.upper_xup_cost),
      cost_xup |-> div(mult(r_low_state_iters, in.lower_xup_cost)
                       + mult(r_period - r_low_state_iters, in.upper_xup_cost), r_period)])

\* lines 518-543: the division between two non-idle states
BusyDivision(in, r_period) ==
  LET r_low == IF in.upper_xup <= in.lower_xup /\ in.upper_xup >= in.lower_xup
               THEN R_ZERO
               ELSE mult(r_period,
                         div(mult(in.upper_xup, in.lower_xup) - mult(in.target_xup, in.lower_xup),
                             mult(in.upper_xup, in.target_xup) - mult(in.target_xup, in.lower_xup)))
  IN Let(real_to_int(r_low), LAMBDA low_state_iters :
     LET r_low_state_iters == int_to_real(low_state_iters) IN
     [low_state_iters |-> low_state_iters, idle_ns |-> 0,
      cost |-> mult(div(r_low_state_iters, in.lower_xup), in.lower_xup_cost)
               + mult(div(r_period - r_low_state_iters, in.upper_xup), in.upper_xup_cost),
      cost_xup |-> div(mult(r_low_state_iters, in.lower_xup_cost)
                       + mult(r_period - r_low_state_iters, in.upper_xup_cost), r_period)])

\* lines 444-550
calculate_time_division(s, workload) ==
  Let(PlannerInputs(s), LAMBDA in :
  Let(IF IsIdleLower(in.lower_xup) THEN IdleDivision(in, int_to_real(s.period), workload)
      ELSE BusyDivision(in, int_to_real(s.period)), LAMBDA d :
    [s EXCEPT !.low_state_iters = d.low_state_iters, !.idle_ns = ToUnsigned(d.idle_ns),
              !.cost_estimate = d.cost, !.cost_xup_estimate = d.cost_xup]))

---------------------------------------------------------------------------
(* The pair search *)

\* lines 552-560
get_control_xup(s, id) ==
  IF s.constraint = POWER THEN StateAt(s.control_states, id).cost
  ELSE StateAt(s.control_states, id).speedup

\* lines 582-591: the target and the seed of best_cost
TargetXup(s) == IF s.constraint = POWER THEN s.pcs.u ELSE s.scs.u
BestCostSeed(s) == IF s.constraint = POWER THEN R_ZERO ELSE BIG_REAL_T

\* UpperSkipped skipping a state at the baseline as well
UpperSkippedAtBaseline(upper_xup, target_xup) ==
  upper_xup < target_xup \/ upper_xup <= R_ONE

\* line 595: the candidates skipped as upper
UpperSkipped(upper_xup, target_xup) == upper_xup < target_xup \/ upper_xup < R_ONE

\* LowerSkipped without the test of disable_idle
LowerSkippedIdleAllowed(lower_xup, target_xup, disable_idle) == lower_xup > target_xup

\* lines 602-603: the candidates skipped as lower
LowerSkipped(lower_xup, target_xup, disable_idle) ==
  lower_xup > target_xup \/ (lower_xup < R_ONE /\ disable_idle > 0)

\* IsBest taking a pair that only equals the best so far for a better one
IsBestOrEqual(constraint, cost_estimate, best_cost) ==
  IF constraint = POWER THEN cost_estimate >= best_cost ELSE cost_estimate <= best_cost

\* lines 610-619
IsBest(constraint, cost_estimate, best_cost) ==
  IF constraint = POWER THEN cost_estimate > best_cost ELSE cost_estimate < best_cost

\* NoBest starting the search from the pair (0, 0) instead of from no pair
NoBestFirst(s) ==
  [lower_id |-> 0, upper_id |-> 0, low_state_iters |-> -1, idle_ns |-> 0,
   cost |-> BestCostSeed(s), cost_xup |-> -1]

\* lines 572-576: the best configuration before the search
NoBest(s) ==
  [lower_id |-> -1, upper_id |-> -1, low_state_iters |-> -1, idle_ns |-> 0,
   cost |-> BestCostSeed(s), cost_xup |-> -1]

\* lines 606-627: one admissible pair (upper i, lower j) tried against the best so far
TryPair(s, workload, i, j, best) ==
  Let(calculate_time_division([s EXCEPT !.upper_id = i, !.lower_id = j], workload), LAMBDA c :
    IF IsBest(s.constraint, c.cost_estimate, best.cost)
    THEN [lower_id |-> j, upper_id |-> i, low_state_iters |-> c.low_state_iters,
          idle_ns |-> c.idle_ns, cost |-> c.cost_estimate, cost_xup |-> c.cost_xup_estimate]
    ELSE best)

\* lines 593-630: the two nested loops; Best[k] is the best configuration after
\* k passes of the inner body, pass k trying upper i = k \div n and lower j = k % n
PairLoop(s, workload, disable_idle) ==
  LET n == s.num_system_states
      target_xup == TargetXup(s)
      Best[k \in 0..(n * n)] ==
        IF k = 0 THEN NoBest(s)
        ELSE LET i == (k - 1) \div n
                 j == (k - 1) % n
             IN Let(Best[k - 1], LAMBDA best :
                  IF UpperSkipped(get_control_xup(s, i), target_xup)
                     \/ LowerSkipped(get_control_xup(s, j), target_xup, disable_idle)
                  THEN best
                  ELSE TryPair(s, workload, i, j, best))
  IN Best[n * n]

\* lines 566-639
translate_n2_with_time(s, workload, disable_idle) ==
  Let(PairLoop(s, workload, disable_idle), LAMBDA best :
    [s EXCEPT !.lower_id = best.lower_id, !.upper_id = best.upper_id,
              !.low_state_iters = best.low_state_iters, !.idle_ns = best.idle_ns,
              !.cost_estimate = best.cost, !.cost_xup_estimate = best.cost_xup])

---------------------------------------------------------------------------
(* The telemetry sink *)

\* line 282
LogIndex(s, id) == (id \div s.period) % s.buffer_depth

\* lines 275-349: the buffer after the record is stored, and the rows printed
logger(s, id) ==
  IF ~s.log_file THEN [lb |-> s.lb, rows |-> << >>]
  ELSE LET index == LogIndex(s, id)
           lb == [s.lb EXCEPT ![index + 1] = [tag |-> id, stored |-> TRUE]]
       IN IF index = s.buffer_depth - 1
          THEN [lb |-> [i \in 1..s.buffer_depth |-> [lb[i] EXCEPT !.stored = FALSE]],
                rows |-> lb]
          ELSE [lb |-> lb, rows |-> << >>]

---------------------------------------------------------------------------
(* The control orchestrator *)

\* lines 653-673: both filters, then the controller of the active constraint
RunController(s, perf, pwr) ==
  Let(estimate_base_workload(perf, s.scs.u, s.pfs), LAMBDA t :
  Let(estimate_base_workload(pwr, s.pcs.u, s.cfs), LAMBDA c :
    LET f == [s EXCEPT !.pfs = t.filter, !.cfs = c.filter]
    IN IF s.constraint = POWER
       THEN [s |-> [f EXCEPT !.pcs = calculate_xup(pwr, s.constraint_goal, c.w, s.pcs)],
             workload |-> c.w]
       ELSE [s |-> [f EXCEPT !.scs = calculate_xup(perf, s.constraint_goal, t.w, s.scs)],
             workload |-> t.w]))

\* lines 650-684: the state as translate_n2_with_time leaves it (planned), the
\* workload it was given, the state at the end of the boundary block (s) and the
\* rows the logger prints
Boundary(s, id, perf, pwr, disable_idle) ==
  Let(RunController(s, perf, pwr), LAMBDA c :
  Let(translate_n2_with_time(c.s, c.workload, disable_idle), LAMBDA planned :
  Let(calculate_cost_xup(planned), LAMBDA seeded :
  Let(logger(seeded, id), LAMBDA l :
    [planned |-> planned, workload |-> c.workload, s |-> [seeded EXCEPT !.lb = l.lb],
     rows |-> l.rows]))))

\* lines 687-693
SelectConfig(s) ==
  IF s.low_state_iters > 0 THEN s.lower_id
  ELSE IF s.upper_id >= 0 THEN s.upper_id
  ELSE -1

\* ConsumeIteration leaving low_state_iters as it is
ConsumeIterationKeep(s) == s

\* line 690
ConsumeIteration(s) ==
  IF s.low_state_iters > 0 THEN [s EXCEPT !.low_state_iters = s.low_state_iters - 1] ELSE s

\* NeedsApply without the test of is_first_apply
NeedsApplyOnChange(s, config_id) == config_id >= 0 /\ config_id # s.last_id

\* line 695
NeedsApply(s, config_id) ==
  config_id >= 0 /\ (config_id # s.last_id \/ s.is_first_apply > 0)

\* ApplyEnabled without the test of POET_DISABLE_APPLY
ApplyEnabledAlways(s, env) == s.apply

\* line 696
ApplyEnabled(s, env) == s.apply /\ POET_DISABLE_APPLY \notin env

\* NextAction without the wrap at the end of the period
NextActionNoWrap(s) == s.current_action + 1

\* line 706
NextAction(s) == (s.current_action + 1) % s.period

\* Dispatch clearing is_first_apply with every dispatch decision, invoked or not
DispatchClearFirst(s, env) ==
  LET config_id == SelectConfig(s)
      c == ConsumeIteration(s)
      invoked == NeedsApply(s, config_id) /\ ApplyEnabled(s, env)
      d == IF NeedsApply(s, config_id)
           THEN [c EXCEPT !.is_first_apply = 0, !.last_id = config_id, !.idle_ns = 0]
           ELSE c
  IN [s |-> [d EXCEPT !.current_action = NextAction(s)],
      config_id |-> config_id,
      invoked |-> invoked,
      cb |-> [new_id |-> config_id, last_id |-> s.last_id, idle_ns |-> s.idle_ns,
              is_first_apply |-> s.is_first_apply]]

\* Dispatch invoking the callback in every iteration that has a configuration
DispatchEveryIteration(s, env) ==
  LET config_id == SelectConfig(s)
      c == ConsumeIteration(s)
      invoked == config_id >= 0 /\ ApplyEnabled(s, env)
      d == IF NeedsApply(s, config_id)
           THEN [c EXCEPT !.is_first_apply = IF invoked THEN 0 ELSE c.is_first_apply,
                          !.last_id = config_id, !.idle_ns = 0]
           ELSE c
  IN [s |-> [d EXCEPT !.current_action = NextAction(s)],
      config_id |-> config_id,
      invoked |-> invoked,
      cb |-> [new_id |-> config_id, last_id |-> s.last_id, idle_ns |-> s.idle_ns,
              is_first_apply |-> s.is_first_apply]]

\* lines 686-706: the dispatch of one iteration
Dispatch(s, env) ==
  LET config_id == SelectConfig(s)
      c == ConsumeIteration(s)
      invoked == NeedsApply(s, config_id) /\ ApplyEnabled(s, env)
      d == IF NeedsApply(s, config_id)
           THEN [c EXCEPT !.is_first_apply = IF invoked THEN 0 ELSE c.is_first_apply,
                          !.last_id = config_id, !.idle_ns = 0]
           ELSE c
  IN [s |-> [d EXCEPT !.current_action = NextAction(s)],
      config_id |-> config_id,
      invoked |-> invoked,
      cb |-> [new_id |-> config_id, last_id |-> s.last_id, idle_ns |-> s.idle_ns,
              is_first_apply |-> s.is_first_apply]]

\* ControlDisabled never finding POET_DISABLE_CONTROL
ControlDisabledNever(env) == FALSE

\* line 646
ControlDisabled(env) == POET_DISABLE_CONTROL \in env

\* IsBoundary taking every iteration for the first of a period
IsBoundaryAlways(s) == TRUE

\* line 650
IsBoundary(s) == s.current_action = 0

\* lines 642-707: the whole call; read is the set of variables it passes to getenv
poet_apply_control(s, id, perf, pwr, env) ==
  LET boundary == IsBoundary(s)
  IN IF ControlDisabled(env)
     THEN [s |-> s, ran |-> FALSE, boundary |-> FALSE, planned |-> s, workload |-> 0,
           rows |-> << >>,
           config_id |-> -1, invoked |-> FALSE,
           cb |-> [new_id |-> -1, last_id |-> 0, idle_ns |-> 0, is_first_apply |-> 0],
           read |-> {POET_DISABLE_CONTROL}]
     ELSE
       Let(IF boundary
           THEN Boundary(s, id, perf, pwr, IF POET_DISABLE_IDLE \in env THEN 1 ELSE 0)
           ELSE [planned |-> s, workload |-> 0, s |-> s, rows |-> << >>], LAMBDA b :
       Let(Dispatch(b.s, env), LAMBDA d :
          [s |-> d.s, ran |-> TRUE, boundary |-> boundary, planned |-> b.planned,
           workload |-> b.workload,
           rows |-> b.rows, config_id |-> d.config_id, invoked |-> d.invoked, cb |-> d.cb,
           read |-> {POET_DISABLE_CONTROL}
                    \cup (IF boundary THEN {POET_DISABLE_IDLE} ELSE {})
                    \cup (IF NeedsApply(b.s, d.config_id) /\ b.s.apply
                          THEN {POET_DISABLE_APPLY} ELSE {})]))

\* poet_set_constraint_type starting a new period as well
SetConstraintRestart(s, constraint, goal) ==
  IF goal > R_ZERO
  THEN [s EXCEPT !.constraint = constraint, !.constraint_goal = goal,
                 !.current_action = CURRENT_ACTION_START]
  ELSE s

\* poet_set_constraint_type changing the constraint and keeping the goal it had
SetConstraintKeepGoal(s, constraint, goal) ==
  IF goal > R_ZERO THEN [s EXCEPT !.constraint = constraint] ELSE s

\* lines 266-273
poet_set_constraint_type(s, constraint, goal) ==
  IF goal > R_ZERO THEN [s EXCEPT !.constraint = constraint, !.constraint_goal = goal]
  ELSE s

---------------------------------------------------------------------------
(* The host: the inputs it passes, and the calls it makes *)

Constraints == {PERFORMANCE, POWER}

\* poet_init's arguments
Args(table, constraint, goal, period, apply, current, buffer_depth, log_filename) ==
  [goal |-> goal, constraint |-> constraint, num_system_states |-> Len(table),
   control_states_given |-> TRUE, control_states |-> table, apply |-> apply,
   current |-> current, period |-> period, buffer_depth |-> buffer_depth,
   log_filename |-> log_filename, fault |-> "none", garbage |-> 0,
   beyond |-> Entry(0, 0, 0)]

Goals == {CONST(3, 2)}

\* what the tag of a slot of the log buffer that was never written may read as
Garbage == {0, 9}

\* what the memory past the end of the table may read as
Beyond == {Entry(0, 0, 0), Entry(CONST(2, 1), CONST(2, 1), 0)}
Periods == {1, 2, 3}

\* the engines the host runs
RunConfigs ==
  {Args(t, c, g, p, TRUE, -2, 0, FALSE) : t \in Tables, c \in Constraints, g \in Goals, p \in Periods}
  \cup {Args(TableTwo, PERFORMANCE, g, 2, FALSE, -2, 0, FALSE) : g \in Goals}
  \cup {Args(TableSleep, PERFORMANCE, g, 2, TRUE, cur, 0, FALSE) : g \in Goals, cur \in {-1, 0}}
  \cup {[Args(TableTwo, PERFORMANCE, g, 1, TRUE, -2, 2, TRUE) EXCEPT !.garbage = t] :
           g \in Goals, t \in Garbage}
  \cup {Args(TableTwo, PERFORMANCE, g, 2, TRUE, -2, 2, TRUE) : g \in Goals}
  \cup {[Args(TableLoose, PERFORMANCE, g, 1, TRUE, -2, 0, FALSE) EXCEPT !.beyond = e] :
           g \in Goals, e \in Beyond}
  \cup {Args(TableCostly, c, g, 2, TRUE, -2, 0, FALSE) : c \in Constraints, g \in Goals}

\* every argument list poet_init is tried on
InitArgs ==
  {[goal |-> g, constraint |-> PERFORMANCE,
    num_system_states |-> IF none THEN 0 ELSE Len(t),
    control_states_given |-> given, control_states |-> t, apply |-> TRUE,
    current |-> -2, period |-> p, buffer_depth |-> bd, log_filename |-> lf, fault |-> f,
    garbage |-> 0, beyond |-> Entry(0, 0, 0)] :
      g \in {-R_ONE, R_ZERO, R_ONE}, none \in BOOLEAN, t \in InitTables, given \in BOOLEAN,
      p \in {0, 1, 2}, bd \in {0, 1, 2}, lf \in BOOLEAN,
      f \in {"none", "ENOMEM_state", "ENOMEM_lb", "fopen"}}

\* the measured (perf, pwr) of one iteration
Samples == {<<CONST(4, 1), CONST(4, 1)>>, <<CONST(1, 1), CONST(1, 1)>>}

\* the environments a call may find
Envs == {{}, {POET_DISABLE_CONTROL}, {POET_DISABLE_APPLY}, {POET_DISABLE_IDLE}}

\* the goals the host passes to poet_set_constraint_type
SwitchGoals == {R_ZERO, CONST(2, 1)}

NoCall ==
  [op |-> "none", ran |-> FALSE, boundary |-> FALSE, config_id |-> -1, invoked |-> FALSE,
   cb |-> [new_id |-> -1, last_id |-> 0, idle_ns |-> 0, is_first_apply |-> 0],
   current_action |-> 0]

NoPlan ==
  [valid |-> FALSE, constraint |-> PERFORMANCE, target_xup |-> 0, disable_idle |-> FALSE,
   lower_id |-> -1, upper_id |-> -1, low_state_iters |-> 0, idle_ns |-> 0,
   cost_estimate |-> 0, cost_xup_estimate |-> 0, workload |-> 0, active |-> NoXup,
   perf |-> 0, pwr |-> 0]

\* the controller of the constraint in force
ActiveXup(s) == IF s.constraint = POWER THEN s.pcs ELSE s.scs

\* the schedule of the state translate_n2_with_time returned, with the workload it
\* was given, the active controller as calculate_xup left it and the measurements
\* of the call
PlanOf(s, env, workload, perf, pwr) ==
  [valid |-> TRUE, constraint |-> s.constraint, target_xup |-> TargetXup(s),
   disable_idle |-> POET_DISABLE_IDLE \in env,
   lower_id |-> s.lower_id, upper_id |-> s.upper_id, low_state_iters |-> s.low_state_iters,
   idle_ns |-> s.idle_ns, cost_estimate |-> s.cost_estimate,
   cost_xup_estimate |-> s.cost_xup_estimate, workload |-> workload,
   active |-> ActiveXup(s), perf |-> perf, pwr |-> pwr]

IsIdleState(table, id) == StateAt(table, id).speedup < R_ONE

\* the host's account of the apply callback: the configuration it was last asked
\* to apply, and the invocations since the last boundary (applies), those of them
\* between two non-idle states (busy) and those of these that change the state
\* (moves); since counts the calls that got past the POET_DISABLE_CONTROL test,
\* from the last one that ran the boundary block on; constraint and goal are the
\* ones the host last passed with a goal above 0, to poet_init or to
\* poet_set_constraint_type, and set_at the number of boundaries that had run then
HostAfter(h, r, table) ==
  LET base == IF r.boundary
              THEN [h EXCEPT !.applies = 0, !.busy = 0, !.moves = 0, !.idles = 0, !.since = 1]
              ELSE [h EXCEPT !.since = IF r.ran THEN h.since + 1 ELSE h.since]
  IN IF ~r.invoked THEN base
     ELSE [config |-> r.cb.new_id,
           since |-> base.since,
           constraint |-> base.constraint, goal |-> base.goal, set_at |-> base.set_at,
           applies |-> base.applies + 1,
           busy |-> base.busy + IF ~IsIdleState(table, r.cb.new_id)
                                   /\ ~IsIdleState(table, r.cb.last_id) THEN 1 ELSE 0,
           moves |-> base.moves + IF ~IsIdleState(table, r.cb.new_id)
                                     /\ ~IsIdleState(table, r.cb.last_id)
                                     /\ r.cb.new_id # r.cb.last_id THEN 1 ELSE 0,
           idles |-> base.idles + IF r.cb.idle_ns > 0 THEN 1 ELSE 0,
           total |-> base.total + 1]

Init ==
  /\ args \in RunConfigs
  /\ phase = "done"
  /\ alive = poet_init(args).ok
  /\ errno = poet_init(args).errno
  /\ state = poet_init(args).state
  /\ envAt = {}
  /\ calls = 0
  /\ plans = 0
  /\ switches = 0
  /\ last = NoCall
  /\ plan = NoPlan
  /\ host = [config |-> InitialId(args), applies |-> 0, busy |-> 0, moves |-> 0, idles |-> 0,
             total |-> 0, since |-> 0, constraint |-> args.constraint, goal |-> args.goal,
             set_at |-> 0]
  /\ logfile = << >>

ApplyControl ==
  /\ phase = "done" /\ alive /\ calls < MaxCalls
  /\ \E m \in Samples, env \in Envs :
       \E r \in {poet_apply_control(state, calls, m[1], m[2], env)} :
          /\ r.boundary => plans < MaxPlans
          /\ plans' = IF r.boundary THEN plans + 1 ELSE plans
          /\ state' = r.s
          /\ envAt' = env \cap r.read
          /\ last' = [op |-> "apply_control", ran |-> r.ran, boundary |-> r.boundary,
                      config_id |-> r.config_id, invoked |-> r.invoked, cb |-> r.cb,
                      current_action |-> state.current_action]
          /\ plan' = IF r.boundary THEN PlanOf(r.planned, env, r.workload, m[1], m[2]) ELSE plan
          /\ host' = HostAfter(host, r, state.control_states)
          /\ logfile' = logfile \o r.rows
  /\ calls' = calls + 1
  /\ UNCHANGED <<args, phase, alive, errno, switches>>

SetConstraint ==
  /\ phase = "done" /\ alive /\ switches < MaxSwitches
  /\ \E c \in Constraints, g \in SwitchGoals :
       /\ state' = poet_set_constraint_type(state, c, g)
       /\ last' = [NoCall EXCEPT !.op = "set_constraint", !.ran = g > R_ZERO,
                                 !.current_action = state.current_action]
       /\ switches' = IF g > R_ZERO THEN switches + 1 ELSE switches
       /\ host' = IF g > R_ZERO THEN [host EXCEPT !.constraint = c, !.goal = g, !.set_at = plans]
                  ELSE host
  /\ UNCHANGED <<args, phase, alive, errno, envAt, calls, plans, plan, logfile>>

Next == ApplyControl \/ SetConstraint

Spec == Init /\ [][Next]_vars

\* poet_init on every argument list
InitStart ==
  /\ args \in InitArgs
  /\ phase = "start"
  /\ alive = FALSE
  /\ errno = ""
  /\ state = NoState
  /\ envAt = {}
  /\ calls = 0
  /\ plans = 0
  /\ switches = 0
  /\ last = NoCall
  /\ plan = NoPlan
  /\ host = [config |-> 0, applies |-> 0, busy |-> 0, moves |-> 0, idles |-> 0,
             total |-> 0, since |-> 0, constraint |-> args.constraint, goal |-> args.goal,
             set_at |-> 0]
  /\ logfile = << >>

CallInit ==
  /\ phase = "start"
  /\ phase' = "done"
  /\ alive' = poet_init(args).ok
  /\ errno' = poet_init(args).errno
  /\ state' = poet_init(args).state
  /\ last' = [NoCall EXCEPT !.op = "init"]
  /\ UNCHANGED <<args, envAt, calls, plans, switches, plan, host, logfile>>

SpecInit == InitStart /\ [][CallInit]_vars

---------------------------------------------------------------------------
(* The properties *)

\* the last call was a poet_apply_control that got past the POET_DISABLE_CONTROL test
Ran == last.op = "apply_control" /\ last.ran

\* the xup of state id in the dimension the current plan was made for
PlanXup(id) == get_control_xup([state EXCEPT !.constraint = plan.constraint], id)

\* no (upper, lower) pair passes the two tests of the pair search of the current plan
NoPairQualifies ==
  \A i, j \in 0..(state.num_system_states - 1) :
     \/ UpperSkipped(PlanXup(i), plan.target_xup)
     \/ LowerSkipped(PlanXup(j), plan.target_xup, IF plan.disable_idle THEN 1 ELSE 0)

InRange(xs) == xs.umin <= xs.u /\ xs.u <= xs.umax

\* C1: after poet_init and after any sequence of poet_apply_control calls, both
\* the speedup controller and the powerup controller have umin <= u <= umax,
\* the controller overwritten by the cross-seeding included.
C1_XupClamped == InRange(state.scs) /\ InRange(state.pcs)

\* C2 as stated: every result of translate_n2_with_time has
\* 0 <= low_state_iters <= period and idle_ns >= 0.
C2_ScheduleBounds ==
  plan.valid => /\ 0 <= plan.low_state_iters
                /\ plan.low_state_iters <= state.period
                /\ plan.idle_ns >= 0

\* C2, amended: a result of translate_n2_with_time that selected a pair has
\* 0 <= low_state_iters <= period and idle_ns >= 0; a result without a pair
\* (lower_id = -1) has low_state_iters = -1 and idle_ns = 0.
C2_ScheduleBoundsOfPair ==
  plan.valid =>
    IF plan.lower_id >= 0
    THEN /\ 0 <= plan.low_state_iters
         /\ plan.low_state_iters <= state.period
         /\ plan.idle_ns >= 0
    ELSE plan.low_state_iters = -1 /\ plan.idle_ns = 0

\* a pair whose lower state takes some but not all iterations of the period
C2_Witness ==
  /\ plan.valid /\ plan.lower_id >= 0 /\ plan.lower_id # plan.upper_id
  /\ plan.low_state_iters > 0 /\ plan.low_state_iters < state.period

\* C3 as stated: in every planning result, under either constraint,
\* idle_ns > 0 implies control_states[lower_id].speedup < 1 and low_state_iters = 1.
C3_IdleIsIdleState ==
  (plan.valid /\ plan.idle_ns > 0) =>
     /\ StateAt(state.control_states, plan.lower_id).speedup < R_ONE
     /\ plan.low_state_iters = 1

\* C3, amended: in every planning result idle_ns > 0 implies that the lower state's
\* xup in the constrained dimension (speedup under PERFORMANCE, cost under POWER)
\* is below 1, and low_state_iters = 1.
C3_IdleIsIdleXup ==
  (plan.valid /\ plan.idle_ns > 0) =>
     /\ PlanXup(plan.lower_id) < R_ONE
     /\ plan.low_state_iters = 1

\* a POWER plan that idles in a state whose speedup is not below 1
C3_Witness ==
  /\ plan.valid /\ plan.idle_ns > 0 /\ plan.constraint = POWER
  /\ StateAt(state.control_states, plan.lower_id).speedup >= R_ONE

\* C4 as stated: a plan made with POET_DISABLE_IDLE set selects no lower_id whose
\* speedup is below 1, under either constraint and for every table.
C4_NoIdleLower ==
  (plan.valid /\ plan.disable_idle /\ plan.lower_id >= 0) =>
     StateAt(state.control_states, plan.lower_id).speedup >= R_ONE

\* C4, amended: a plan made with POET_DISABLE_IDLE set selects no lower_id whose
\* xup in the constrained dimension (speedup under PERFORMANCE, cost under POWER)
\* is below 1.
C4_NoIdleLowerXup ==
  (plan.valid /\ plan.disable_idle /\ plan.lower_id >= 0) =>
     PlanXup(plan.lower_id) >= R_ONE

\* a plan made with POET_DISABLE_IDLE on a table with a state below 1 that meets the target
C4_Witness ==
  /\ plan.valid /\ plan.disable_idle /\ plan.lower_id >= 0
  /\ \E id \in 0..(state.num_system_states - 1) :
        PlanXup(id) < R_ONE /\ PlanXup(id) <= plan.target_xup

\* C5: with control enabled, a callback and POET_DISABLE_APPLY unset, a call invokes
\* the callback iff config_id >= 0 and (config_id # last_id or is_first_apply);
\* after the invocation last_id = config_id, is_first_apply = 0 and idle_ns = 0.
C5_ApplyDecision ==
  (Ran /\ state.apply /\ POET_DISABLE_APPLY \notin envAt) =>
     /\ last.invoked <=> /\ last.config_id >= 0
                         /\ (last.config_id # last.cb.last_id \/ last.cb.is_first_apply > 0)
     /\ last.invoked => /\ last.cb.new_id = last.config_id
                        /\ host.config = last.config_id
                        /\ state.last_id = last.config_id
                        /\ state.is_first_apply = 0
                        /\ state.idle_ns = 0

\* an invocation for a changed configuration after the first one, carrying idle time
C5_Witness ==
  /\ Ran /\ last.invoked /\ last.cb.is_first_apply = 0
  /\ last.config_id # last.cb.last_id /\ last.cb.idle_ns > 0

\* C6: when no pair qualifies at a boundary, lower_id = upper_id = -1 and every
\* call of that period invokes no callback, leaves last_id unchanged and still
\* advances current_action.
C6_NoPairNoDispatch ==
  (plan.valid /\ NoPairQualifies /\ Ran) =>
     /\ plan.lower_id = -1 /\ plan.upper_id = -1
     /\ state.lower_id = -1 /\ state.upper_id = -1
     /\ last.config_id = -1
     /\ ~last.invoked
     /\ state.last_id = last.cb.last_id
     /\ state.current_action = (last.current_action + 1) % state.period

\* a call after the boundary call of a period whose plan has no pair
C6_Witness ==
  /\ plan.valid /\ NoPairQualifies /\ Ran /\ ~last.boundary
  /\ state.apply /\ envAt = {}

\* C7: a poet_apply_control call that finds POET_DISABLE_CONTROL set changes nothing
\* of the engine, writes no telemetry and invokes no callback.
C7_DisabledControl ==
  [][(calls' = calls + 1 /\ POET_DISABLE_CONTROL \in envAt') =>
        /\ state' = state
        /\ logfile' = logfile
        /\ host' = host
        /\ plan' = plan
        /\ ~last'.invoked]_vars

\* a disabled call at a boundary of an engine that logs and has a plan
C7_Witness ==
  /\ last.op = "apply_control" /\ POET_DISABLE_CONTROL \in envAt
  /\ state.current_action = 0 /\ state.log_file /\ plan.valid /\ state.is_first_apply = 0

\* C8: with control enabled, a call that finds POET_DISABLE_APPLY set, or an engine
\* without a callback, invokes no callback; every boundary call still steps both
\* filters and the active controller, searches the pairs and cross-seeds, and every
\* call advances current_action.
C8_DisabledApply ==
  [][(calls' = calls + 1 /\ last'.ran) =>
        /\ (POET_DISABLE_APPLY \in envAt' \/ ~state.apply) =>
              ~last'.invoked /\ host'.total = host.total /\ host'.config = host.config
        /\ state'.current_action = (state.current_action + 1) % state.period
        /\ state.current_action = 0 =>
              /\ state'.pfs.h = state.scs.u /\ state'.pfs.x_hat_minus = state.pfs.x_hat
              /\ state'.cfs.h = state.pcs.u /\ state'.cfs.x_hat_minus = state.cfs.x_hat
              /\ IF state.constraint = POWER
                 THEN /\ state'.pcs.uoo = state.pcs.uo /\ state'.pcs.u = plan'.target_xup
                      /\ state'.scs.u = plan'.cost_xup_estimate
                 ELSE /\ state'.scs.uoo = state.scs.uo /\ state'.scs.u = plan'.target_xup
                      /\ state'.pcs.u = plan'.cost_xup_estimate
              /\ plan'.valid /\ plans' = plans + 1
              /\ state'.upper_id = plan'.upper_id /\ state'.lower_id = plan'.lower_id]_vars

\* a boundary call that planned a pair and found POET_DISABLE_APPLY set when the
\* callback was due
C8_Witness ==
  /\ Ran /\ last.boundary /\ POET_DISABLE_APPLY \in envAt
  /\ plan.lower_id >= 0 /\ last.config_id >= 0 /\ ~last.invoked

\* C9 as stated: between two boundaries the callback is invoked at most period
\* times, and at most one invocation is a transition from a non-idle last_id to a
\* non-idle new_id (counted here only when the two ids differ).
C9_OneBusyTransition == host.applies <= state.period /\ host.moves <= 1

\* C9, amended: between two boundaries the callback is invoked at most period
\* times, and at most two invocations have a non-idle last_id and a non-idle new_id
\* (whether or not the two ids differ).
C9_TwoBusyTransitions == host.applies <= state.period /\ host.busy <= 2

\* a period with two changes between non-idle states
C9_Witness == host.moves = 2 /\ host.busy = 2 /\ state.period > 2

\* the argument lists of C10's first four cases
C10_BadScalars ==
  \/ args.goal <= R_ZERO
  \/ args.num_system_states = 0
  \/ ~args.control_states_given
  \/ args.period = 0

\* C10 as stated: poet_init returns NULL with EINVAL exactly when goal <= 0,
\* num_states = 0, control_states is NULL, period = 0, or buffer_depth > 0 with a
\* NULL log_filename; every other argument list is accepted unless an allocation
\* or the opening of the log file fails.
C10_InitRejects ==
  phase = "done" =>
    LET bad == C10_BadScalars \/ (args.buffer_depth > 0 /\ ~args.log_filename)
    IN /\ (~alive /\ errno = EINVAL) <=> bad
       /\ (~bad /\ args.fault = "none") => alive

\* C10, amended: poet_init returns NULL with EINVAL exactly when goal <= 0,
\* num_states = 0, control_states is NULL, period = 0, or buffer_depth = 0 with a
\* log_filename given; every other argument list is accepted unless an allocation
\* or the opening of the log file fails.
C10_InitRejectsFileWithoutBuffer ==
  phase = "done" =>
    LET bad == C10_BadScalars \/ (args.buffer_depth = 0 /\ args.log_filename)
    IN /\ (~alive /\ errno = EINVAL) <=> bad
       /\ (~bad /\ args.fault = "none") => alive

\* a log file without a buffer is rejected though the scalars are good
C10_Witness ==
  /\ phase = "done" /\ ~C10_BadScalars
  /\ args.buffer_depth = 0 /\ args.log_filename
  /\ ~alive /\ errno = EINVAL

\* C11: after poet_init and after every poet_apply_control call,
\* 0 <= current_action < period; a call with control enabled sets current_action to
\* (current_action + 1) mod period and a disabled one leaves it, so that the boundary
\* block runs in the first enabled call and then exactly once every period enabled calls.
C11_ActionCounter ==
  [][/\ state.current_action \in 0..(state.period - 1)
     /\ state'.current_action \in 0..(state'.period - 1)
     /\ calls' = calls + 1 =>
          IF last'.ran
          THEN /\ state'.current_action = (state.current_action + 1) % state.period
               /\ last'.boundary <=> state.current_action = 0
               /\ last'.boundary => (plans = 0 \/ host.since = state.period)
               /\ ~last'.boundary => (plans > 0 /\ host.since < state.period)
          ELSE state'.current_action = state.current_action]_vars

\* the second boundary of an engine of period 3, reached in the fourth enabled call
C11_Witness ==
  /\ Ran /\ last.boundary /\ plans = 2 /\ state.period = 3 /\ host.since = 1

\* the (upper, lower) pairs that pass the two tests of the pair search of the current plan
AdmissiblePairs ==
  {p \in (0..(state.num_system_states - 1)) \X (0..(state.num_system_states - 1)) :
     /\ ~UpperSkipped(PlanXup(p[1]), plan.target_xup)
     /\ ~LowerSkipped(PlanXup(p[2]), plan.target_xup, IF plan.disable_idle THEN 1 ELSE 0)}

\* the engine as the pair search of the current plan had it when it tried the pair p
PlanState(p) ==
  [state EXCEPT !.constraint = plan.constraint,
                !.scs = IF plan.constraint = POWER THEN @ ELSE plan.active,
                !.pcs = IF plan.constraint = POWER THEN plan.active ELSE @,
                !.upper_id = p[1], !.lower_id = p[2]]

\* the planner's outputs for the pair p
PairPlan(p) == calculate_time_division(PlanState(p), plan.workload)

\* cost_estimate a is better than b for the constraint of the current plan: lower
\* under PERFORMANCE, higher under POWER
BetterCost(a, b) == IF plan.constraint = POWER THEN a > b ELSE a < b

\* the position of the pair p in the enumeration: upper outer, lower inner, ascending
PairOrder(p) == p[1] * state.num_system_states + p[2]

\* C12 as stated: when at least one pair is admissible, the pair search selects an admissible
\* pair whose cost_estimate is the minimum over the admissible pairs under PERFORMANCE
\* and the maximum under POWER, the first such pair in enumeration order, and stores
\* the planner's low_state_iters, idle_ns, cost_estimate and cost_xup_estimate of it.
C12_PairSearchReference ==
  (plan.valid /\ AdmissiblePairs # {}) =>
     /\ <<plan.upper_id, plan.lower_id>> \in AdmissiblePairs
     /\ \A p \in AdmissiblePairs :
           /\ ~BetterCost(PairPlan(p).cost_estimate, plan.cost_estimate)
           /\ PairPlan(p).cost_estimate = plan.cost_estimate =>
                 PairOrder(<<plan.upper_id, plan.lower_id>>) <= PairOrder(p)
     /\ \E r \in {PairPlan(<<plan.upper_id, plan.lower_id>>)} :
           /\ plan.low_state_iters = r.low_state_iters
           /\ plan.idle_ns = r.idle_ns
           /\ plan.cost_estimate = r.cost_estimate
           /\ plan.cost_xup_estimate = r.cost_xup_estimate

\* some admissible pair has a cost_estimate that beats the seed of best_cost
SomePairBeatsSeed ==
  \E p \in AdmissiblePairs :
     BetterCost(PairPlan(p).cost_estimate, BestCostSeed(PlanState(p)))

\* C12, amended: when at least one admissible pair has a cost_estimate that beats the
\* seed of best_cost (below BIG_REAL_T under PERFORMANCE, above 0 under POWER), the
\* pair search selects an admissible pair whose cost_estimate is the minimum over the
\* admissible pairs under PERFORMANCE and the maximum under POWER, the first such
\* pair in enumeration order, and stores the planner's low_state_iters, idle_ns,
\* cost_estimate and cost_xup_estimate of it; when no admissible pair beats the seed,
\* it selects no pair (lower_id = upper_id = -1).
C12_PairSearchBeatingSeed ==
  plan.valid =>
     IF SomePairBeatsSeed
     THEN /\ <<plan.upper_id, plan.lower_id>> \in AdmissiblePairs
          /\ \A p \in AdmissiblePairs :
                /\ ~BetterCost(PairPlan(p).cost_estimate, plan.cost_estimate)
                /\ PairPlan(p).cost_estimate = plan.cost_estimate =>
                      PairOrder(<<plan.upper_id, plan.lower_id>>) <= PairOrder(p)
          /\ \E r \in {PairPlan(<<plan.upper_id, plan.lower_id>>)} :
                /\ plan.low_state_iters = r.low_state_iters
                /\ plan.idle_ns = r.idle_ns
                /\ plan.cost_estimate = r.cost_estimate
                /\ plan.cost_xup_estimate = r.cost_xup_estimate
     ELSE plan.upper_id = -1 /\ plan.lower_id = -1

\* a plan chosen among admissible pairs of different cost, one of them tying with
\* the selected pair
C12_Witness ==
  /\ plan.valid /\ SomePairBeatsSeed
  /\ \E p, q \in AdmissiblePairs :
        /\ p # <<plan.upper_id, plan.lower_id>>
        /\ PairPlan(p).cost_estimate = plan.cost_estimate
        /\ PairPlan(q).cost_estimate # plan.cost_estimate

\* the controller of dimension c
XupOf(s, c) == IF c = POWER THEN s.pcs ELSE s.scs

\* the measurement the controller of the current plan was given
PlanRate == IF plan.constraint = POWER THEN plan.pwr ELSE plan.perf

\* a boundary has run and poet_set_constraint_type has since been given, with a goal
\* above 0, the dimension other than the one that boundary planned for
SwitchPending == plan.valid /\ host.constraint # plan.constraint

\* C13: once poet_set_constraint_type(state, c, g) with g > 0 has switched to the other
\* dimension after a boundary, the controller of dimension c has u = uo = the
\* cost_xup_estimate cross-seeded at that boundary, with u non-zero, up to the entry
\* of the next boundary; that boundary runs the controller of dimension c against
\* goal g, from the seeded history, and the pair search of dimension c.
C13_SwitchUsesSeededController ==
  [][SwitchPending =>
       /\ XupOf(state, host.constraint).u = plan.cost_xup_estimate
       /\ XupOf(state, host.constraint).uo = plan.cost_xup_estimate
       /\ XupOf(state, host.constraint).u # R_ZERO
       /\ (calls' = calls + 1 /\ last'.boundary) =>
             /\ plan'.constraint = host.constraint
             /\ plan'.active.e = host.goal - PlanRate'
             /\ plan'.active.uoo = plan.cost_xup_estimate
             /\ plan'.active = XupOf(state', host.constraint)
             /\ plan'.target_xup = plan'.active.u
             /\ plan'.upper_id >= 0 =>
                   /\ get_control_xup([state EXCEPT !.constraint = host.constraint],
                                      plan'.upper_id) >= plan'.target_xup
                   /\ get_control_xup([state EXCEPT !.constraint = host.constraint],
                                      plan'.lower_id) <= plan'.target_xup]_vars

\* the boundary after a switch from PERFORMANCE to POWER, planned from a seeded powerup
\* that came from a selected pair
C13_Witness ==
  /\ Ran /\ last.boundary /\ plans = 2 /\ switches = 1 /\ host.set_at = 1
  /\ plan.constraint = POWER /\ args.constraint = PERFORMANCE
  /\ plan.active.uoo > R_ZERO /\ plan.upper_id >= 0

\* the controller of the dimension that is not the constraint c
OtherXup(s, c) == IF c = POWER THEN s.scs ELSE s.pcs

\* C14: at every boundary, after planning, the non-active controller (pcs under
\* PERFORMANCE, scs under POWER) has uoo = its previous uo, u = uo = the
\* cost_xup_estimate the pair search stored and e = eo = 0; the active controller is
\* as the controller step and the pair search left it, untouched by the seeding.
C14_CrossSeeding ==
  [][(calls' = calls + 1 /\ last'.boundary) =>
        /\ OtherXup(state', state.constraint).uoo = OtherXup(state, state.constraint).uo
        /\ OtherXup(state', state.constraint).u = plan'.cost_xup_estimate
        /\ OtherXup(state', state.constraint).uo = plan'.cost_xup_estimate
        /\ OtherXup(state', state.constraint).e = R_ZERO
        /\ OtherXup(state', state.constraint).eo = R_ZERO
        /\ state'.cost_xup_estimate = plan'.cost_xup_estimate
        /\ XupOf(state', state.constraint) = plan'.active
        /\ plan'.active.uoo = XupOf(state, state.constraint).uo]_vars

\* a second boundary under POWER whose seeding moved the speedup controller's history
\* and whose powerup controller has a non-zero error
C14_Witness ==
  /\ Ran /\ last.boundary /\ plans = 2 /\ plan.constraint = POWER /\ plan.upper_id >= 0
  /\ state.scs.uoo # state.scs.uo /\ state.scs.u = plan.cost_xup_estimate
  /\ state.pcs.e # R_ZERO /\ state.pcs.u # state.scs.u

\* C15 as stated: with num_states = 1, whatever the entry's speedup and cost, every
\* planning step selects upper_id = lower_id = 0 with low_state_iters = 0.
C15_SingleState ==
  (plan.valid /\ state.num_system_states = 1) =>
     plan.upper_id = 0 /\ plan.lower_id = 0 /\ plan.low_state_iters = 0

\* C15, amended: with num_states = 1 and the entry's xup in the constrained dimension
\* equal to 1 (speedup under PERFORMANCE, with period * cost below BIG_REAL_T; cost
\* under POWER, with speedup above 0), every planning step selects
\* upper_id = lower_id = 0 with low_state_iters = 0.
C15_SingleStateAtBaseline ==
  (/\ plan.valid /\ state.num_system_states = 1 /\ PlanXup(0) = R_ONE
   /\ IF plan.constraint = POWER
      THEN StateAt(state.control_states, 0).speedup > R_ZERO
      ELSE mult(int_to_real(state.period), StateAt(state.control_states, 0).cost) < BIG_REAL_T) =>
     plan.upper_id = 0 /\ plan.lower_id = 0 /\ plan.low_state_iters = 0

\* a second plan, after a measurement off the goal, for a single state at the
\* baseline speed whose cost is not 1
C15_Witness ==
  /\ plan.valid /\ state.num_system_states = 1 /\ plans = 2
  /\ plan.constraint = PERFORMANCE /\ PlanXup(0) = R_ONE
  /\ StateAt(state.control_states, 0).cost # R_ONE
  /\ plan.active.e # R_ZERO /\ plan.upper_id = 0

\* C16: for the one-entry table {speedup 1, cost 1}, whatever the period, the goal and
\* the measurements, every plan has lower_id = upper_id = 0, low_state_iters = 0 and
\* idle_ns = 0, every invocation of the callback has new_id = 0 and idle_ns = 0, and
\* the callback is invoked exactly once: in the first call that reaches the dispatch
\* with the callback enabled, which is the first call when no kill switch is set.
C16_BaselineTable ==
  args.control_states = TableOne =>
     /\ plan.valid => /\ plan.lower_id = 0 /\ plan.upper_id = 0
                      /\ plan.low_state_iters = 0 /\ plan.idle_ns = 0
     /\ last.invoked => /\ last.cb.new_id = 0 /\ last.cb.idle_ns = 0
                        /\ last.cb.is_first_apply > 0
     /\ host.total <= 1
     /\ (Ran /\ POET_DISABLE_APPLY \notin envAt) => host.total = 1
     /\ (Ran /\ POET_DISABLE_APPLY \notin envAt /\ calls = 1) => last.invoked

\* the fourth call on the baseline table, past a second plan made from a measurement
\* off the goal, with one invocation made so far
C16_Witness ==
  /\ args.control_states = TableOne /\ calls = 4 /\ plans = 2 /\ Ran /\ envAt = {}
  /\ plan.active.e # R_ZERO /\ host.total = 1 /\ ~last.invoked

\* C17: a flush writes buffer_depth rows, and every row it writes is a record that
\* was stored since the previous flush (or since poet_init): the buffer holds
\* buffer_depth new records whenever it is flushed.
C17_FlushWhenFull ==
  /\ Len(logfile) % (IF state.buffer_depth > 0 THEN state.buffer_depth ELSE 1) = 0
  /\ \A i \in 1..Len(logfile) : logfile[i].stored

\* C18: in a period whose plan selected a pair with low_state_iters = n, the first n
\* enabled calls of the period select lower_id and the remaining period - n select
\* upper_id, so that no lower-state iteration follows an upper-state one, and
\* low_state_iters is 0 again when the next boundary is reached.
C18_LowerThenUpper ==
  (plan.valid /\ plan.lower_id >= 0) =>
     /\ Ran => /\ last.config_id = IF last.current_action < plan.low_state_iters
                                   THEN plan.lower_id ELSE plan.upper_id
               /\ state.low_state_iters =
                    IF last.current_action + 1 < plan.low_state_iters
                    THEN plan.low_state_iters - (last.current_action + 1) ELSE 0
     /\ state.current_action = 0 => state.low_state_iters = 0

\* the last call of a period of 3 selects the upper state after a lower-state iteration
C18_Witness ==
  /\ Ran /\ plan.valid /\ plan.lower_id >= 0 /\ plan.lower_id # plan.upper_id
  /\ state.period = 3 /\ plan.low_state_iters >= 1
  /\ last.current_action = 2 /\ last.config_id = plan.upper_id /\ state.current_action = 0

Min(S) == CHOOSE x \in S : \A y \in S : x <= y
Max(S) == CHOOSE x \in S : \A y \in S : x >= y
AtLeast(floor, v) == IF v < floor THEN floor ELSE v

\* the speedups and the costs of the table poet_init was given
Speedups == {args.control_states[i].speedup : i \in 1..Len(args.control_states)}
Costs == {args.control_states[i].cost : i \in 1..Len(args.control_states)}

\* the table with its entries in every order
Reorderings ==
  LET n == Len(args.control_states)
  IN {[i \in 1..n |-> args.control_states[f[i]]] :
        f \in {g \in [1..n -> 1..n] : \A i, j \in 1..n : g[i] = g[j] => i = j}}

\* the ranges the loop of poet_init computes for a table
RangeOf(table) ==
  XupRange(table, 0, [smin |-> R_ONE, smax |-> R_ONE, cmin |-> R_ONE, cmax |-> R_ONE])

\* C19 as stated: after poet_init, scs.umin is the minimum non-zero speedup of the
\* table floored by U_MIN_SPEEDUP and scs.umax the maximum speedup, likewise pcs.umin
\* and pcs.umax for cost and U_MIN_COST, whatever the order of the entries.
C19_RangeOfNonZero ==
  alive =>
     /\ state.scs.umin = AtLeast(U_MIN_SPEEDUP, Min(Speedups \ {R_ZERO}))
     /\ state.scs.umax = Max(Speedups)
     /\ state.pcs.umin = AtLeast(U_MIN_COST, Min(Costs \ {R_ZERO}))
     /\ state.pcs.umax = Max(Costs)
     /\ \A t \in Reorderings : RangeOf(t) = RangeOf(args.control_states)

\* C19, amended: after poet_init, scs.umin is the minimum of 1 and of all speedups of
\* the table, zero included, floored by U_MIN_SPEEDUP, and scs.umax is the maximum of
\* 1 and of all speedups; likewise pcs.umin and pcs.umax for cost and U_MIN_COST;
\* the result does not depend on the order of the entries.
C19_RangeAroundBaseline ==
  alive =>
     /\ state.scs.umin = AtLeast(U_MIN_SPEEDUP, Min(Speedups \cup {R_ONE}))
     /\ state.scs.umax = Max(Speedups \cup {R_ONE})
     /\ state.pcs.umin = AtLeast(U_MIN_COST, Min(Costs \cup {R_ONE}))
     /\ state.pcs.umax = Max(Costs \cup {R_ONE})
     /\ \A t \in Reorderings : RangeOf(t) = RangeOf(args.control_states)

\* poet_init has returned for a table with a sleep state and a cost below U_MIN_COST
C19_Witness ==
  /\ phase = "done" /\ alive /\ last.op = "init" /\ R_ZERO \in Speedups
  /\ Min(Costs) < U_MIN_COST /\ Cardinality(Reorderings) = 6
  /\ state.scs.umin = U_MIN_SPEEDUP /\ state.pcs.umin = U_MIN_COST
  /\ state.scs.umax > R_ONE

\* C20: a poet_apply_control call with current_action # 0 leaves both filters, both
\* controllers, lower_id, upper_id, cost_estimate, cost_xup_estimate, constraint and
\* goal unchanged and stores no telemetry record; of the engine only low_state_iters,
\* last_id, idle_ns, is_first_apply and current_action may change.
C20_NonBoundaryFrame ==
  [][(calls' = calls + 1 /\ state.current_action # 0) =>
        /\ state' = [state EXCEPT !.low_state_iters = state'.low_state_iters,
                                  !.last_id = state'.last_id,
                                  !.idle_ns = state'.idle_ns,
                                  !.is_first_apply = state'.is_first_apply,
                                  !.current_action = state'.current_action]
        /\ state'.pfs = state.pfs /\ state'.cfs = state.cfs
        /\ state'.scs = state.scs /\ state'.pcs = state.pcs
        /\ state'.lb = state.lb
        /\ logfile' = logfile
        /\ plan' = plan /\ plans' = plans]_vars

\* a call inside a period of an engine that logs: it moves to the upper state, with
\* a record of the period's boundary in the buffer
C20_Witness ==
  /\ Ran /\ ~last.boundary /\ last.current_action # 0 /\ state.log_file
  /\ last.invoked /\ last.config_id = plan.upper_id /\ plan.low_state_iters >= 1
  /\ \E i \in 1..state.buffer_depth : state.lb[i].stored

\* C21: within one period at most one invocation of the callback carries idle_ns > 0,
\* and every invocation with idle_ns > 0 has the planned lower_id for new_id, that
\* state being below 1 in the dimension the plan was made for, and is made in the
\* first call of the period.
C21_IdleDelivery ==
  /\ host.idles <= 1
  /\ (last.invoked /\ last.cb.idle_ns > 0) =>
        /\ last.cb.new_id = plan.lower_id
        /\ PlanXup(last.cb.new_id) < R_ONE
        /\ last.boundary

\* C22: in every invocation of the callback the last_id argument is the new_id of
\* the invocation before it, or the initial state id of poet_init in the first one,
\* whatever POET_DISABLE_APPLY and POET_DISABLE_CONTROL were in the calls between.
C22_LastIdIsLastApplied ==
  [][(calls' = calls + 1 /\ last'.invoked) => last'.cb.last_id = host.config]_vars

\* C23: the is_first_apply argument is 1 in the first invocation of the callback and
\* 0 in every later one, also after dispatch decisions that POET_DISABLE_APPLY
\* suppressed; and the first call that selects a config_id >= 0 with the callback
\* enabled invokes it, also when config_id is the last_id the engine holds.
C23_FirstApply ==
  /\ state.is_first_apply = (IF host.total = 0 THEN 1 ELSE 0)
  /\ last.invoked => last.cb.is_first_apply = (IF host.total = 1 THEN 1 ELSE 0)
  /\ (Ran /\ last.config_id >= 0 /\ state.apply /\ POET_DISABLE_APPLY \notin envAt) =>
        host.total >= 1
  /\ (Ran /\ last.config_id >= 0 /\ state.apply /\ POET_DISABLE_APPLY \notin envAt
      /\ last.cb.is_first_apply > 0) => last.invoked

\* the first invocation, for the initial state id, in a call after a dispatch
\* decision for that id that POET_DISABLE_APPLY suppressed
C23_Witness ==
  /\ Ran /\ last.invoked /\ host.total = 1 /\ last.cb.is_first_apply = 1
  /\ last.config_id = last.cb.last_id /\ last.config_id = InitialId(args)
  /\ calls >= 2 /\ plans >= 2

\* the entries with speedup < 1 carry an idle_partner_id that names an entry
IdlePartnersValid ==
  \A i \in 0..(state.num_system_states - 1) :
     StateAt(state.control_states, i).speedup < R_ONE =>
        StateAt(state.control_states, i).idle_partner_id \in 0..(state.num_system_states - 1)

\* the indices the pair search of the current plan read the table at: both loop
\* indices, and for every pair it handed to the planner the lower, the upper and
\* the idle partner of the lower
PlannerReads ==
  (0..(state.num_system_states - 1))
  \cup {p[1] : p \in AdmissiblePairs} \cup {p[2] : p \in AdmissiblePairs}
  \cup {StateAt(state.control_states, p[2]).idle_partner_id : p \in AdmissiblePairs}

\* C24: given only that the entries with speedup < 1 carry a valid idle_partner_id,
\* every read of the table uses an index in [0, num_states): the initial last_id of
\* poet_init, the lower_id and upper_id of the planner, and the idle_partner_id the
\* planner dereferences for every candidate lower state.
C24_TableReadsInRange ==
  IdlePartnersValid =>
     /\ InitialId(args) \in 0..(state.num_system_states - 1)
     /\ plan.valid => PlannerReads \subseteq 0..(state.num_system_states - 1)

\* C25: poet_set_constraint_type changes only constraint and constraint_goal: with
\* goal <= 0 it changes nothing, with goal > 0 it leaves current_action, the schedule,
\* last_id, both filters and both controllers as they are, and the remaining calls
\* of the period dispatch by the schedule planned before the switch.
C25_SetConstraintFrame ==
  [][/\ (calls' = calls /\ last'.op = "set_constraint") =>
          /\ state' = IF last'.ran
                      THEN [state EXCEPT !.constraint = host'.constraint,
                                         !.constraint_goal = host'.goal]
                      ELSE state
          /\ last'.ran \/ host' = host
          /\ plan' = plan /\ logfile' = logfile
     /\ (calls' = calls + 1 /\ last'.ran /\ ~last'.boundary /\ plan.constraint # state.constraint) =>
          /\ plan' = plan
          /\ state'.lower_id = plan.lower_id /\ state'.upper_id = plan.upper_id
          /\ last'.config_id =
               IF plan.lower_id < 0 THEN -1
               ELSE IF state.current_action < plan.low_state_iters
                    THEN plan.lower_id ELSE plan.upper_id]_vars

\* a call inside the period in which the constraint was switched moves to the upper
\* state of the schedule planned before the switch
C25_Witness ==
  /\ Ran /\ ~last.boundary /\ switches = 1 /\ host.set_at = plans
  /\ plan.constraint # state.constraint /\ state.constraint_goal # args.goal
  /\ last.invoked /\ last.config_id = plan.upper_id /\ plan.lower_id # plan.upper_id
  /\ plan.low_state_iters >= 1

====
